---------------------------- MODULE Spec2Model ----------------------------
(***************************************************************************)
(* RESTful front end of a Top2Vec model (restful-top2vec/main.py).         *)
(*                                                                         *)
(* One process-wide model handle, seven route handlers, one exception      *)
(* handler.  Every handler is "async def" without an await, so its body    *)
(* runs atomically with respect to the other requests; the interleaving    *)
(* points are request arrival, the handler, and response delivery.         *)
(***************************************************************************)
EXTENDS Integers, Sequences, FiniteSets, TLC

(***************************************************************************)
(* Bounds of the model.                                                    *)
(***************************************************************************)
NumClients == 2
NumTopics == 2
NumDocs == 2
MaxRet == 2

Clients == 1..NumClients

Max(a, b) == IF a >= b THEN a ELSE b

(***************************************************************************)
(* Python / JSON values, tagged with their dynamic type.                   *)
(*   t = "int"   : i is the integer                                        *)
(*   t = "str"   : s is the string                                         *)
(*   t = "list"  : l is a list of strings                                  *)
(*   t = "flist" : f is a list of numbers (score levels)                   *)
(*   t = "none"  : None                                                    *)
(***************************************************************************)
IntV(n) == [t |-> "int", i |-> n, s |-> "", l |-> <<>>, f |-> <<>>]
StrV(x) == [t |-> "str", i |-> 0, s |-> x, l |-> <<>>, f |-> <<>>]
ListV(q) == [t |-> "list", i |-> 0, s |-> "", l |-> q, f |-> <<>>]
FListV(q) == [t |-> "flist", i |-> 0, s |-> "", l |-> <<>>, f |-> q]
NoneV == [t |-> "none", i |-> 0, s |-> "", l |-> <<>>, f |-> <<>>]
Missing == [t |-> "missing", i |-> 0, s |-> "", l |-> <<>>, f |-> <<>>]

(***************************************************************************)
(* Routes (the decorators of main.py).                                     *)
(***************************************************************************)
R_number == "GET /topics/number"
R_get_topics == "GET /topics/get-topics"
R_topics_search == "POST /topics/search"
R_by_topic == "GET /documents/search-by-topic"
R_by_keyword == "POST /documents/search-by-keyword"
R_by_document == "POST /documents/search-by-document"
R_find_similar == "POST /words/find-similar"

KeywordRoutes == {R_topics_search, R_by_keyword, R_find_similar}
ListRoutes == {R_get_topics, R_topics_search, R_by_topic, R_by_keyword,
               R_by_document, R_find_similar}

\* Name of the result-count parameter of a route.
CountName(route) ==
    CASE route \in {R_get_topics, R_topics_search} -> "num_topics"
      [] route \in {R_by_topic, R_by_keyword, R_by_document} -> "num_docs"
      [] route = R_find_similar -> "num_words"
      [] OTHER -> "none"

\* Name of the identifier parameter of a route ("none" when it has none).
IdName(route) ==
    CASE route = R_by_topic -> "topic_num"
      [] route = R_by_document -> "doc_num"
      [] OTHER -> "none"

(***************************************************************************)
(* Requests as they arrive: a route and the raw parameters that are        *)
(* present.  A field that the client omitted is absent from the record.    *)
(* Query parameters arrive as text; JSON body fields arrive typed.         *)
(***************************************************************************)
Counts == 0..(Max(NumTopics, NumDocs) + 1)
Ids == -1..Max(NumTopics, NumDocs)

\* Builds the parameter record from name/value pairs, dropping omitted ones.
Fields(pairs) ==
    LET present == {k \in 1..Len(pairs) : pairs[k][2].t # "missing"}
        names == {pairs[k][1] : k \in present}
    IN [n \in names |-> pairs[CHOOSE k \in present : pairs[k][1] = n][2]]

KeywordsRaw == {ListV(<<"a">>), ListV(<<"zz">>), Missing}
KeywordsNegRaw == {ListV(<<>>), ListV(<<"b">>), Missing}
BodyCountRaw == {IntV(n) : n \in Counts} \cup {StrV("abc"), Missing}
QueryCountRaw == {StrV(ToString(n)) : n \in Counts} \cup {StrV("abc"), Missing}
QueryIdRaw == {StrV(ToString(n)) : n \in Ids} \cup {StrV("abc"), Missing}

KeywordRequests ==
    {[endpoint |-> e,
      params |-> Fields(<<<<"keywords", k>>, <<"keywords_neg", g>>, <<CountName(e), n>>>>)] :
        e \in KeywordRoutes, k \in KeywordsRaw, g \in KeywordsNegRaw, n \in BodyCountRaw}

IdRequests ==
    {[endpoint |-> e,
      params |-> Fields(<<<<IdName(e), d>>, <<CountName(e), n>>>>)] :
        e \in {R_by_topic, R_by_document}, d \in QueryIdRaw, n \in QueryCountRaw}

GetTopicsRequests ==
    {[endpoint |-> R_get_topics, params |-> Fields(<<<<"num_topics", n>>>>)] :
        n \in QueryCountRaw}

NumberRequests == {[endpoint |-> R_number, params |-> Fields(<<>>)]}

Requests == KeywordRequests \cup IdRequests \cup GetTopicsRequests \cup NumberRequests

\* Well-formed requests for one result, for a known keyword without
\* negative keywords, or for the identifier 0 or -1: the traffic of the
\* clients that run beside the first one.
Background ==
    {r \in Requests :
        /\ \A n \in DOMAIN r.params : r.params[n].t # "str" \/ r.params[n].s # "abc"
        /\ DOMAIN r.params =
               (IF r.endpoint \in KeywordRoutes THEN {"keywords", "keywords_neg"} ELSE {})
               \cup ({IdName(r.endpoint), CountName(r.endpoint)} \ {"none"})
        /\ r.endpoint # R_number =>
               r.params[CountName(r.endpoint)] \in {IntV(1), StrV("1")}
        /\ r.endpoint \in KeywordRoutes =>
               r.params["keywords"].l = <<"a">> /\ r.params["keywords_neg"].l = <<>>
        /\ IdName(r.endpoint) # "none" =>
               r.params[IdName(r.endpoint)] \in {StrV("-1"), StrV("0")}}

\* The first client sends any request, the others send background traffic.
RequestsOf(c) == IF c = 1 THEN Requests ELSE Background

NoRequest == [endpoint |-> "none", params |-> Fields(<<>>)]

\* The raw value of a parameter, Missing when the client omitted it.
Param(r, name) == IF name \in DOMAIN r.params THEN r.params[name] ELSE Missing

(***************************************************************************)
(* Schema validation: the pydantic classes and the typed parameters of the *)
(* handlers.  Every declared field is required (none has a default).       *)
(***************************************************************************)
IntTexts == (-1)..(Max(NumTopics, NumDocs) + 2)

\* int(text) of a query parameter: defined for decimal literals only.
IsIntText(x) == \E n \in IntTexts : ToString(n) = x
IntOfText(x) == CHOOSE n \in IntTexts : ToString(n) = x

\* A field declared "int".
IsInt(v) == \/ v.t = "int"
            \/ v.t = "str" /\ IsIntText(v.s)
AsInt(v) == IF v.t = "int" THEN v.i ELSE IntOfText(v.s)

\* A field declared "List[str]".
IsStrList(v) == v.t = "list"

\* Variant: keywords_neg may be omitted.
KeywordSearch_optional_neg(r) ==
    /\ IsStrList(Param(r, "keywords"))
    /\ Param(r, "keywords_neg").t \in {"list", "missing"}

\* Variant: keywords may be omitted.
KeywordSearch_optional_keywords(r) ==
    /\ Param(r, "keywords").t \in {"list", "missing"}
    /\ IsStrList(Param(r, "keywords_neg"))

\* class KeywordSearch: keywords and keywords_neg, both required.
KeywordSearch(r) ==
    /\ IsStrList(Param(r, "keywords"))
    /\ IsStrList(Param(r, "keywords_neg"))

KeywordSearchTopic(r) == KeywordSearch(r) /\ IsInt(Param(r, "num_topics"))
KeywordSearchDocument(r) == KeywordSearch(r) /\ IsInt(Param(r, "num_docs"))
KeywordSearchWord(r) == KeywordSearch(r) /\ IsInt(Param(r, "num_words"))

\* Does the request satisfy the schema of its route?
SchemaValid(r) ==
    CASE r.endpoint = R_number -> TRUE
      [] r.endpoint = R_get_topics -> IsInt(Param(r, "num_topics"))
      [] r.endpoint = R_topics_search -> KeywordSearchTopic(r)
      [] r.endpoint = R_by_topic ->
            IsInt(Param(r, "topic_num")) /\ IsInt(Param(r, "num_docs"))
      [] r.endpoint = R_by_keyword -> KeywordSearchDocument(r)
      [] r.endpoint = R_by_document ->
            IsInt(Param(r, "doc_num")) /\ IsInt(Param(r, "num_docs"))
      [] r.endpoint = R_find_similar -> KeywordSearchWord(r)
      [] OTHER -> FALSE

(***************************************************************************)
(* Exceptions and call outcomes.                                           *)
(***************************************************************************)
NoExc == [type |-> "none", args |-> <<>>]
Exc(type, msg) == [type |-> type, args |-> <<msg>>]

\* isinstance(exc, ValueError): pydantic's ValidationError derives from it.
IsValueError(exc) == exc.type \in {"ValueError", "ValidationError"}

\* str(exc) of an exception built from zero or one argument.
str(exc) == IF Len(exc.args) = 0 THEN "" ELSE exc.args[1]

Return(ret) == [raised |-> FALSE, exc |-> NoExc, ret |-> ret]
Raise(exc) == [raised |-> TRUE, exc |-> exc, ret |-> <<>>]
NoOutcome == [raised |-> FALSE, exc |-> NoExc, ret |-> <<>>]

(***************************************************************************)
(* The wrapped model, top2vec = Top2Vec.load(...).  The class lives in the *)
(* top2vec package of the repository; its methods follow the contract the  *)
(* specification gives: parallel sequences of equal length, one entry per  *)
(* requested result, and a value error for an argument it rejects.         *)
(***************************************************************************)
Vocabulary == <<"a", "b", "c">>

SeqToSet(q) == {q[k] : k \in 1..Len(q)}
Prefix(q, n) == [k \in 1..n |-> q[k]]

LoadedModel ==
    [stub |-> FALSE,
     topic_words |-> [k \in 1..NumTopics |-> ListV(Prefix(Vocabulary, 1 + (k % 2)))],
     topic_word_scores |->
         [k \in 1..NumTopics |-> FListV([j \in 1..(1 + (k % 2)) |-> 10 * k + j])],
     documents |-> [k \in 1..NumDocs |-> StrV("doc" \o ToString(k - 1))],
     vocab |-> SeqToSet(Vocabulary)]

\* A stand-in handle whose methods may return or raise anything.
AnyModel ==
    [stub |-> TRUE, topic_words |-> <<>>, topic_word_scores |-> <<>>,
     documents |-> <<>>, vocab |-> {}]

T2V_get_num_topics(h) == Return(<<<<IntV(Len(h.topic_words))>>>>)

T2V_validate_num(what, n, limit) ==
    IF n < 0 \/ n > limit
    THEN Exc("ValueError", what \o " cannot exceed " \o ToString(limit))
    ELSE NoExc

T2V_validate_keywords(h, keywords, keywords_neg) ==
    IF \E k \in 1..Len(keywords) : keywords[k] \notin h.vocab
    THEN Exc("ValueError", "keyword has not been learned by the model")
    ELSE IF \E k \in 1..Len(keywords_neg) : keywords_neg[k] \notin h.vocab
    THEN Exc("ValueError", "negative keyword has not been learned by the model")
    ELSE NoExc

T2V_validate_index(what, n, size) ==
    IF n < 0 \/ n >= size
    THEN Exc("ValueError", what \o " " \o ToString(n) \o " is out of range")
    ELSE NoExc

\* First exception of a list of validation results, NoExc when all passed.
FirstExc(q) ==
    IF \E k \in 1..Len(q) : q[k].type # "none"
    THEN q[CHOOSE k \in 1..Len(q) :
             /\ q[k].type # "none"
             /\ \A j \in 1..(k - 1) : q[j].type = "none"]
    ELSE NoExc

T2V_get_topics(h, num_topics) ==
    LET e == T2V_validate_num("num_topics", num_topics, Len(h.topic_words))
    IN IF e.type # "none" THEN Raise(e)
       ELSE Return(<<Prefix(h.topic_words, num_topics),
                     Prefix(h.topic_word_scores, num_topics),
                     [k \in 1..num_topics |-> IntV(k - 1)]>>)

\* Items ranked for a query: the ranking depends on the query.
T2V_rank(n, shift) == [k \in 1..n |-> 1 + ((k - 1 + shift) % n)]
T2V_query(keywords, keywords_neg) == Len(keywords) + 2 * Len(keywords_neg)

T2V_search_topics(h, keywords, num_topics, keywords_neg) ==
    LET e == FirstExc(<<T2V_validate_keywords(h, keywords, keywords_neg),
                        T2V_validate_num("num_topics", num_topics, Len(h.topic_words))>>)
        order == T2V_rank(Len(h.topic_words), T2V_query(keywords, keywords_neg))
    IN IF e.type # "none" THEN Raise(e)
       ELSE Return(<<[k \in 1..num_topics |-> h.topic_words[order[k]]],
                     [k \in 1..num_topics |-> h.topic_word_scores[order[k]]],
                     [k \in 1..num_topics |-> IntV(100 - k)],
                     [k \in 1..num_topics |-> IntV(order[k] - 1)]>>)

T2V_search_documents_by_topic(h, topic_num, num_docs) ==
    LET e == FirstExc(<<T2V_validate_index("topic_num", topic_num, Len(h.topic_words)),
                        T2V_validate_num("num_docs", num_docs, Len(h.documents))>>)
        order == T2V_rank(Len(h.documents), topic_num)
    IN IF e.type # "none" THEN Raise(e)
       ELSE Return(<<[k \in 1..num_docs |-> h.documents[order[k]]],
                     [k \in 1..num_docs |-> IntV(100 - k)],
                     [k \in 1..num_docs |-> IntV(order[k] - 1)]>>)

T2V_search_documents_by_keyword(h, keywords, num_docs, keywords_neg) ==
    LET e == FirstExc(<<T2V_validate_keywords(h, keywords, keywords_neg),
                        T2V_validate_num("num_docs", num_docs, Len(h.documents))>>)
        order == T2V_rank(Len(h.documents), T2V_query(keywords, keywords_neg))
    IN IF e.type # "none" THEN Raise(e)
       ELSE Return(<<[k \in 1..num_docs |-> h.documents[order[k]]],
                     [k \in 1..num_docs |-> IntV(100 - k)],
                     [k \in 1..num_docs |-> IntV(order[k] - 1)]>>)

\* The documents nearest to doc_num, doc_num itself excluded.
T2V_search_documents_by_document(h, doc_num, num_docs) ==
    LET e == FirstExc(<<T2V_validate_index("doc_num", doc_num, Len(h.documents)),
                        T2V_validate_num("num_docs", num_docs, Len(h.documents) - 1)>>)
        others == SelectSeq([k \in 1..Len(h.documents) |-> k],
                            LAMBDA k : k # doc_num + 1)
    IN IF e.type # "none" THEN Raise(e)
       ELSE Return(<<[k \in 1..num_docs |-> h.documents[others[k]]],
                     [k \in 1..num_docs |-> IntV(100 - k)],
                     [k \in 1..num_docs |-> IntV(others[k] - 1)]>>)

T2V_similar_words(h, keywords, num_words, keywords_neg) ==
    LET used == SeqToSet(keywords) \cup SeqToSet(keywords_neg)
        others == SelectSeq(Vocabulary, LAMBDA w : w \notin used)
        e == FirstExc(<<T2V_validate_keywords(h, keywords, keywords_neg),
                        T2V_validate_num("num_words", num_words, Len(others))>>)
    IN IF e.type # "none" THEN Raise(e)
       ELSE Return(<<[k \in 1..num_words |-> StrV(others[k])],
                     [k \in 1..num_words |-> IntV(100 - k)]>>)

(***************************************************************************)
(* What a stand-in model may do: raise, or return parallel sequences of    *)
(* any lengths up to MaxRet, possibly holding one element of a wrong type. *)
(* Elements differ by position so that a reordering is visible.            *)
(***************************************************************************)
AnySeq(good, bad) ==
    {[k \in 1..n |-> IF k = p THEN bad ELSE good[k]] : n \in 0..MaxRet, p \in 0..MaxRet}

AnyWordLists == AnySeq([k \in 1..MaxRet |-> ListV(Prefix(Vocabulary, k % 3))], NoneV)
AnyScoreLists ==
    AnySeq([k \in 1..MaxRet |-> FListV([j \in 1..((k + 1) % 3) |-> 10 * k + j])], NoneV)
AnyScores == AnySeq([k \in 1..MaxRet |-> IntV(50 + k)], NoneV)
AnyNums == AnySeq([k \in 1..MaxRet |-> IntV(k + 6)], StrV("abc"))
AnyTexts == AnySeq([k \in 1..MaxRet |-> StrV("text" \o ToString(k))], NoneV)

AnyRaises == {Raise(Exc("ValueError", "rejected")), Raise(Exc("KeyError", "zz"))}

AnyOutcomes(method) ==
    AnyRaises \cup
    CASE method = "get_num_topics" -> {Return(<<<<IntV(n)>>>>) : n \in 0..MaxRet}
      [] method = "get_topics" ->
            {Return(<<w, s, n>>) : w \in AnyWordLists, s \in AnyScoreLists, n \in AnyNums}
      [] method = "search_topics" ->
            {Return(<<w, s, t, n>>) :
                w \in AnyWordLists, s \in AnyScoreLists, t \in AnyScores, n \in AnyNums}
      [] method = "similar_words" ->
            {Return(<<w, s>>) : w \in AnyTexts, s \in AnyScores}
      [] OTHER ->
            {Return(<<d, s, n>>) : d \in AnyTexts, s \in AnyScores, n \in AnyNums}

\* The outcomes of one method call on the handle h.
Call(h, method, args) ==
    IF h.stub THEN AnyOutcomes(method)
    ELSE CASE method = "get_num_topics" -> {T2V_get_num_topics(h)}
           [] method = "get_topics" -> {T2V_get_topics(h, args[1])}
           [] method = "search_topics" -> {T2V_search_topics(h, args[1], args[2], args[3])}
           [] method = "search_documents_by_topic" ->
                 {T2V_search_documents_by_topic(h, args[1], args[2])}
           [] method = "search_documents_by_keyword" ->
                 {T2V_search_documents_by_keyword(h, args[1], args[2], args[3])}
           [] method = "search_documents_by_document" ->
                 {T2V_search_documents_by_document(h, args[1], args[2])}
           [] method = "similar_words" -> {T2V_similar_words(h, args[1], args[2], args[3])}

(***************************************************************************)
(* Response objects (pydantic classes): construction validates every field *)
(* and raises ValidationError, a ValueError, when one does not fit.        *)
(***************************************************************************)
IsFloat(v) == v.t = "int"
AsFloat(v) == v.i

ValidationError(class) == Exc("ValidationError", "1 validation error for " \o class)

Topic(topic_num, topic_words, word_scores) ==
    IF IsInt(topic_num) /\ topic_words.t = "list" /\ word_scores.t = "flist"
    THEN Return([topic_num |-> AsInt(topic_num), topic_words |-> topic_words.l,
                 word_scores |-> word_scores.f])
    ELSE Raise(ValidationError("Topic"))

TopicResult(topic_num, topic_words, word_scores, topic_score) ==
    IF Topic(topic_num, topic_words, word_scores).raised \/ ~IsFloat(topic_score)
    THEN Raise(ValidationError("TopicResult"))
    ELSE Return([topic_num |-> AsInt(topic_num), topic_words |-> topic_words.l,
                 word_scores |-> word_scores.f, topic_score |-> AsFloat(topic_score)])

\* Variant: the class refuses the document number 0.
Document_positive(content, score, doc_num) ==
    IF content.t = "str" /\ IsFloat(score) /\ IsInt(doc_num) /\ AsInt(doc_num) > 0
    THEN Return([content |-> content.s, score |-> AsFloat(score), doc_num |-> AsInt(doc_num)])
    ELSE Raise(ValidationError("Document"))

Document(content, score, doc_num) ==
    IF content.t = "str" /\ IsFloat(score) /\ IsInt(doc_num)
    THEN Return([content |-> content.s, score |-> AsFloat(score), doc_num |-> AsInt(doc_num)])
    ELSE Raise(ValidationError("Document"))

WordResult(word, score) ==
    IF word.t = "str" /\ IsFloat(score)
    THEN Return([word |-> word.s, score |-> AsFloat(score)])
    ELSE Raise(ValidationError("WordResult"))

(***************************************************************************)
(* Python's zip and the for/append loop of the handlers.                   *)
(***************************************************************************)
MinLen(seqs) ==
    CHOOSE n \in {Len(seqs[k]) : k \in 1..Len(seqs)} :
        \A k \in 1..Len(seqs) : n <= Len(seqs[k])

\* zip(*seqs): stops at the shortest sequence.
zip(seqs) == [i \in 1..MinLen(seqs) |-> [k \in 1..Len(seqs) |-> seqs[k][i]]]

\* for item in zip(...): result.append(Class(item)), where made[i] is the
\* outcome of the i-th construction: the first failing construction
\* propagates and the list built so far is dropped.
append_each(made) ==
    IF \E i \in 1..Len(made) : made[i].raised
    THEN Raise(made[CHOOSE i \in 1..Len(made) :
                       /\ made[i].raised
                       /\ \A j \in 1..(i - 1) : ~made[j].raised].exc)
    ELSE Return([i \in 1..Len(made) |-> made[i].ret])

\* A sequence without its last element.
Front(q) == [i \in 1..(Len(q) - 1) |-> q[i]]

\* Every element of column k replaced by the first element of that column.
Stuck(q, k) ==
    [i \in 1..Len(q) |-> [j \in 1..Len(q[i]) |-> IF j = k THEN q[1][j] ELSE q[i][j]]]

(***************************************************************************)
(* Handler bodies, from the outcome of the model call to what the handler  *)
(* returns or raises.                                                      *)
(***************************************************************************)
get_number_of_topics_body(out) ==
    IF out.raised THEN Raise(out.exc)
    ELSE Return(<<[num_topics |-> AsInt(out.ret[1][1])]>>)

\* Variant: the loop stops one item early.
get_topics_body_short(out) ==
    IF out.raised THEN Raise(out.exc)
    ELSE LET topic_words == out.ret[1]
             word_scores == out.ret[2]
             topic_nums == out.ret[3]
             zipped == Front(zip(<<topic_words, word_scores, topic_nums>>))
         IN append_each([i \in 1..Len(zipped) |-> Topic(zipped[i][3], zipped[i][1], zipped[i][2])])

get_topics_body(out) ==
    IF out.raised THEN Raise(out.exc)
    ELSE LET topic_words == out.ret[1]
             word_scores == out.ret[2]
             topic_nums == out.ret[3]
             zipped == zip(<<topic_words, word_scores, topic_nums>>)
         IN append_each([i \in 1..Len(zipped) |-> Topic(zipped[i][3], zipped[i][1], zipped[i][2])])

\* Variant: after the first iteration the rebound word_scores is used, so
\* every later entry carries the first topic's word scores.
search_topics_by_keywords_body_rebound(out) ==
    IF out.raised THEN Raise(out.exc)
    ELSE LET topic_words == out.ret[1]
             word_scores == out.ret[2]
             topic_scores == out.ret[3]
             topic_nums == out.ret[4]
             zipped == Stuck(zip(<<topic_words, word_scores, topic_scores, topic_nums>>), 2)
         IN append_each([i \in 1..Len(zipped) |-> TopicResult(zipped[i][4], zipped[i][1], zipped[i][2], zipped[i][3])])

\* zip is evaluated before the loop rebinds word_scores.
search_topics_by_keywords_body(out) ==
    IF out.raised THEN Raise(out.exc)
    ELSE LET topic_words == out.ret[1]
             word_scores == out.ret[2]
             topic_scores == out.ret[3]
             topic_nums == out.ret[4]
             zipped == zip(<<topic_words, word_scores, topic_scores, topic_nums>>)
         IN append_each([i \in 1..Len(zipped) |-> TopicResult(zipped[i][4], zipped[i][1], zipped[i][2], zipped[i][3])])

\* Variant: the last document is left out of the response.
search_documents_by_topic_body_partial(out) ==
    IF out.raised THEN Raise(out.exc)
    ELSE LET docs == out.ret[1]
             doc_scores == out.ret[2]
             doc_nums == out.ret[3]
             zipped == Front(zip(<<docs, doc_scores, doc_nums>>))
         IN append_each([i \in 1..Len(zipped) |-> Document(zipped[i][1], zipped[i][2], zipped[i][3])])

search_documents_by_topic_body(out) ==
    IF out.raised THEN Raise(out.exc)
    ELSE LET docs == out.ret[1]
             doc_scores == out.ret[2]
             doc_nums == out.ret[3]
             zipped == zip(<<docs, doc_scores, doc_nums>>)
         IN append_each([i \in 1..Len(zipped) |-> Document(zipped[i][1], zipped[i][2], zipped[i][3])])

search_documents_by_keywords_body(out) ==
    IF out.raised THEN Raise(out.exc)
    ELSE LET docs == out.ret[1]
             doc_scores == out.ret[2]
             doc_nums == out.ret[3]
             zipped == zip(<<docs, doc_scores, doc_nums>>)
         IN append_each([i \in 1..Len(zipped) |-> Document(zipped[i][1], zipped[i][2], zipped[i][3])])

search_documents_by_document_body(out) ==
    IF out.raised THEN Raise(out.exc)
    ELSE LET docs == out.ret[1]
             doc_scores == out.ret[2]
             doc_nums == out.ret[3]
             zipped == zip(<<docs, doc_scores, doc_nums>>)
         IN append_each([i \in 1..Len(zipped) |-> Document(zipped[i][1], zipped[i][2], zipped[i][3])])

\* Variant: every result is appended twice.
find_similar_words_body_twice(out) ==
    IF out.raised THEN Raise(out.exc)
    ELSE LET words == out.ret[1]
             word_scores == out.ret[2]
             zipped == zip(<<words, word_scores>>) \o zip(<<words, word_scores>>)
         IN append_each([i \in 1..Len(zipped) |-> WordResult(zipped[i][1], zipped[i][2])])

find_similar_words_body(out) ==
    IF out.raised THEN Raise(out.exc)
    ELSE LET words == out.ret[1]
             word_scores == out.ret[2]
             zipped == zip(<<words, word_scores>>)
         IN append_each([i \in 1..Len(zipped) |-> WordResult(zipped[i][1], zipped[i][2])])

(***************************************************************************)
(* Responses.                                                              *)
(***************************************************************************)
JSONResponse(status_code, message) ==
    [status |-> status_code, kind |-> "message", items |-> <<>>, message |-> message]

\* Variant: the handler answers 400.
value_error_handler_400(exc) == JSONResponse(400, str(exc))

\* @app.exception_handler(ValueError)
value_error_handler(exc) == JSONResponse(404, str(exc))

\* The framework's answers: the returned value, a schema violation, and an
\* exception no handler is registered for.
Success(items) == [status |-> 200, kind |-> "result", items |-> items, message |-> ""]
Unprocessable == [status |-> 422, kind |-> "detail", items |-> <<>>, message |-> ""]
ServerError == [status |-> 500, kind |-> "error", items |-> <<>>, message |-> ""]
NoResponse == [status |-> 0, kind |-> "none", items |-> <<>>, message |-> ""]

\* How the application answers what a handler returned or raised.
Respond(result) ==
    IF ~result.raised THEN Success(result.ret)
    ELSE IF IsValueError(result.exc) THEN value_error_handler(result.exc)
    ELSE ServerError

(***************************************************************************)
(* State.                                                                  *)
(*   top2vec : the process-wide model handle                               *)
(*   pc      : where each client's request stands                          *)
(*   req     : the request of each client                                  *)
(*   calls   : the model calls made for the request, in order              *)
(*   ret     : what the model call returned or raised                      *)
(*   resp    : the response sent                                           *)
(***************************************************************************)
VARIABLES top2vec, pc, req, calls, ret, resp

vars == <<top2vec, pc, req, calls, ret, resp>>

Idle ==
    /\ pc = [c \in Clients |-> "idle"]
    /\ req = [c \in Clients |-> NoRequest]
    /\ calls = [c \in Clients |-> <<>>]
    /\ ret = [c \in Clients |-> NoOutcome]
    /\ resp = [c \in Clients |-> NoResponse]

\* top2vec = Top2Vec.load(...), at import time.
Init == top2vec = LoadedModel /\ Idle

InitAny == top2vec = AnyModel /\ Idle

\* A request of client c arrives.
Receive(c) ==
    /\ pc[c] = "idle"
    /\ \E r \in RequestsOf(c) : req' = [req EXCEPT ![c] = r]
    /\ pc' = [pc EXCEPT ![c] = "received"]
    /\ calls' = [calls EXCEPT ![c] = <<>>]
    /\ ret' = [ret EXCEPT ![c] = NoOutcome]
    /\ resp' = [resp EXCEPT ![c] = NoResponse]
    /\ UNCHANGED top2vec

\* The framework rejects a request that does not fit the schema of its
\* route; the handler does not run.
RejectInvalid(c) ==
    /\ pc[c] = "received"
    /\ ~SchemaValid(req[c])
    /\ resp' = [resp EXCEPT ![c] = Unprocessable]
    /\ pc' = [pc EXCEPT ![c] = "responded"]
    /\ UNCHANGED <<top2vec, req, calls, ret>>

\* The handler of a route is entered with a request that fits its schema.
Enters(c, route) ==
    /\ pc[c] = "received"
    /\ req[c].endpoint = route
    /\ SchemaValid(req[c])

\* A handler run: the model call (method, args) had the outcome out and the
\* handler body returned or raised result; the response goes out.
Serve(c, method, args, out, result) ==
    /\ calls' = [calls EXCEPT ![c] = Append(@, [method |-> method, args |-> args])]
    /\ ret' = [ret EXCEPT ![c] = out]
    /\ resp' = [resp EXCEPT ![c] = Respond(result)]
    /\ pc' = [pc EXCEPT ![c] = "responded"]
    /\ UNCHANGED <<top2vec, req>>

get_number_of_topics(c) ==
    /\ Enters(c, R_number)
    /\ \E out \in Call(top2vec, "get_num_topics", <<>>) :
           Serve(c, "get_num_topics", <<>>, out, get_number_of_topics_body(out))

\* Variant: the handler takes the served topics out of the shared model.
get_topics_consuming(c) ==
    /\ Enters(c, R_get_topics)
    /\ LET num_topics == AsInt(Param(req[c], "num_topics"))
       IN \E out \in Call(top2vec, "get_topics", <<num_topics>>) :
              /\ calls' = [calls EXCEPT ![c] =
                              Append(@, [method |-> "get_topics", args |-> <<num_topics>>])]
              /\ ret' = [ret EXCEPT ![c] = out]
              /\ resp' = [resp EXCEPT ![c] = Respond(get_topics_body(out))]
              /\ pc' = [pc EXCEPT ![c] = "responded"]
              /\ top2vec' =
                     IF out.raised \/ top2vec.stub THEN top2vec
                     ELSE [top2vec EXCEPT
                              !.topic_words = SubSeq(@, num_topics + 1, Len(@)),
                              !.topic_word_scores = SubSeq(@, num_topics + 1, Len(@))]
              /\ UNCHANGED req

get_topics(c) ==
    /\ Enters(c, R_get_topics)
    /\ LET num_topics == AsInt(Param(req[c], "num_topics"))
       IN \E out \in Call(top2vec, "get_topics", <<num_topics>>) :
              Serve(c, "get_topics", <<num_topics>>, out, get_topics_body(out))

\* Variant: keywords and keywords_neg change places in the call.
search_topics_by_keywords_swapped(c) ==
    /\ Enters(c, R_topics_search)
    /\ LET keyword_search ==
               [keywords |-> Param(req[c], "keywords").l,
                keywords_neg |-> Param(req[c], "keywords_neg").l,
                num_topics |-> AsInt(Param(req[c], "num_topics"))]
           args ==
               <<keyword_search.keywords_neg, keyword_search.num_topics, keyword_search.keywords>>
       IN \E out \in Call(top2vec, "search_topics", args) :
              Serve(c, "search_topics", args, out, search_topics_by_keywords_body(out))

search_topics_by_keywords(c) ==
    /\ Enters(c, R_topics_search)
    /\ LET keyword_search ==
               [keywords |-> Param(req[c], "keywords").l,
                keywords_neg |-> Param(req[c], "keywords_neg").l,
                num_topics |-> AsInt(Param(req[c], "num_topics"))]
           args ==
               <<keyword_search.keywords, keyword_search.num_topics, keyword_search.keywords_neg>>
       IN \E out \in Call(top2vec, "search_topics", args) :
              Serve(c, "search_topics", args, out, search_topics_by_keywords_body(out))

search_documents_by_topic(c) ==
    /\ Enters(c, R_by_topic)
    /\ LET topic_num == AsInt(Param(req[c], "topic_num"))
           num_docs == AsInt(Param(req[c], "num_docs"))
       IN \E out \in Call(top2vec, "search_documents_by_topic", <<topic_num, num_docs>>) :
              Serve(c, "search_documents_by_topic", <<topic_num, num_docs>>, out, search_documents_by_topic_body(out))

search_documents_by_keywords(c) ==
    /\ Enters(c, R_by_keyword)
    /\ LET keyword_search ==
               [keywords |-> Param(req[c], "keywords").l,
                keywords_neg |-> Param(req[c], "keywords_neg").l,
                num_docs |-> AsInt(Param(req[c], "num_docs"))]
           args ==
               <<keyword_search.keywords, keyword_search.num_docs, keyword_search.keywords_neg>>
       IN \E out \in Call(top2vec, "search_documents_by_keyword", args) :
              Serve(c, "search_documents_by_keyword", args, out, search_documents_by_keywords_body(out))

search_documents_by_document(c) ==
    /\ Enters(c, R_by_document)
    /\ LET doc_num == AsInt(Param(req[c], "doc_num"))
           num_docs == AsInt(Param(req[c], "num_docs"))
       IN \E out \in Call(top2vec, "search_documents_by_document", <<doc_num, num_docs>>) :
              Serve(c, "search_documents_by_document", <<doc_num, num_docs>>, out, search_documents_by_document_body(out))

find_similar_words(c) ==
    /\ Enters(c, R_find_similar)
    /\ LET keyword_search ==
               [keywords |-> Param(req[c], "keywords").l,
                keywords_neg |-> Param(req[c], "keywords_neg").l,
                num_words |-> AsInt(Param(req[c], "num_words"))]
           args ==
               <<keyword_search.keywords, keyword_search.num_words, keyword_search.keywords_neg>>
       IN \E out \in Call(top2vec, "similar_words", args) :
              Serve(c, "similar_words", args, out, find_similar_words_body(out))

\* The response reaches the client, which may then send another request.
Deliver(c) ==
    /\ pc[c] = "responded"
    /\ pc' = [pc EXCEPT ![c] = "idle"]
    /\ req' = [req EXCEPT ![c] = NoRequest]
    /\ calls' = [calls EXCEPT ![c] = <<>>]
    /\ ret' = [ret EXCEPT ![c] = NoOutcome]
    /\ resp' = [resp EXCEPT ![c] = NoResponse]
    /\ UNCHANGED top2vec

Step(c) ==
    \/ Receive(c)
    \/ Deliver(c)
    \/ RejectInvalid(c)
    \/ get_number_of_topics(c)
    \/ get_topics(c)
    \/ search_topics_by_keywords(c)
    \/ search_documents_by_topic(c)
    \/ search_documents_by_keywords(c)
    \/ search_documents_by_document(c)
    \/ find_similar_words(c)

Next == \E c \in Clients : Step(c)

Spec == Init /\ [][Next]_vars

\* One client against a stand-in model that may return anything.
NextAny == Step(1)

SpecAny == InitAny /\ [][NextAny]_vars

(***************************************************************************)
(* Vocabulary of the properties.                                           *)
(***************************************************************************)
Responded(c) == pc[c] = "responded"

\* The integer a request gives for a parameter.
Given(c, name) == AsInt(Param(req[c], name))

\* The result count a request asks for.
Requested(c) == Given(c, CountName(req[c].endpoint))

\* The model method each route stands for.
MethodOf(route) ==
    CASE route = R_number -> "get_num_topics"
      [] route = R_get_topics -> "get_topics"
      [] route = R_topics_search -> "search_topics"
      [] route = R_by_topic -> "search_documents_by_topic"
      [] route = R_by_keyword -> "search_documents_by_keyword"
      [] route = R_by_document -> "search_documents_by_document"
      [] route = R_find_similar -> "similar_words"

\* The arguments a request stands for, in the order of the method.
ArgumentsOf(r) ==
    CASE r.endpoint = R_number -> <<>>
      [] r.endpoint = R_get_topics -> <<AsInt(Param(r, "num_topics"))>>
      [] r.endpoint \in KeywordRoutes ->
            <<Param(r, "keywords").l, AsInt(Param(r, CountName(r.endpoint))),
              Param(r, "keywords_neg").l>>
      [] OTHER ->
            <<AsInt(Param(r, IdName(r.endpoint))), AsInt(Param(r, CountName(r.endpoint)))>>

\* The total number of topics of the loaded model.
TotalTopics == Len(top2vec.topic_words)

(***************************************************************************)
(* C1: a request to GET /topics/get-topics whose num_topics does not       *)
(* exceed the model's number of topics is answered with exactly num_topics *)
(* Topic entries, and in each entry topic_words and word_scores have the   *)
(* same length.                                                            *)
(***************************************************************************)
C1_GetTopicsExact ==
    \A c \in Clients :
        (/\ Responded(c)
         /\ req[c].endpoint = R_get_topics
         /\ SchemaValid(req[c])
         /\ Given(c, "num_topics") <= TotalTopics)
        => /\ resp[c].status = 200
           /\ Len(resp[c].items) = Given(c, "num_topics")
           /\ \A i \in 1..Len(resp[c].items) :
                  Len(resp[c].items[i].topic_words) = Len(resp[c].items[i].word_scores)

C1_Witness ==
    \E c \in Clients :
        /\ Responded(c)
        /\ req[c].endpoint = R_get_topics
        /\ SchemaValid(req[c])
        /\ Given(c, "num_topics") = TotalTopics
        /\ Len(resp[c].items) = TotalTopics
        /\ TotalTopics >= 2
        /\ Len(resp[c].items[1].topic_words) # Len(resp[c].items[2].topic_words)

(***************************************************************************)
(* C2: a request to /documents/search-by-topic with an out-of-range        *)
(* topic_num, or to /documents/search-by-document with an out-of-range     *)
(* doc_num, ends in a 404 response whose message is the text of the value  *)
(* error the model raised, never in a 200 response with a document list.   *)
(***************************************************************************)
OutOfRange(c) ==
    /\ Responded(c)
    /\ SchemaValid(req[c])
    /\ \/ /\ req[c].endpoint = R_by_topic
          /\ Given(c, "topic_num") \notin 0..(TotalTopics - 1)
       \/ /\ req[c].endpoint = R_by_document
          /\ Given(c, "doc_num") \notin 0..(Len(top2vec.documents) - 1)

C2_OutOfRangeIs404 ==
    \A c \in Clients :
        OutOfRange(c)
        => /\ ret[c].raised
           /\ ret[c].exc.type = "ValueError"
           /\ resp[c] = [status |-> 404, kind |-> "message", items |-> <<>>,
                         message |-> ret[c].exc.args[1]]

C2_Witness ==
    \E c \in Clients :
        /\ OutOfRange(c)
        /\ req[c].endpoint = R_by_document
        /\ Given(c, "doc_num") = Len(top2vec.documents)
        /\ resp[c].status = 404
        /\ resp[c].message = "doc_num " \o ToString(Len(top2vec.documents)) \o " is out of range"

(***************************************************************************)
(* C3: on every list-returning route, the response list of a request that  *)
(* succeeds is never longer than the count the request asked for, whatever *)
(* sequences the model returns.  (The statement as claimed.)               *)
(***************************************************************************)
Succeeded(c) ==
    /\ Responded(c)
    /\ req[c].endpoint \in ListRoutes
    /\ resp[c].status = 200

C3_NeverLongerThanCount ==
    \A c \in Clients :
        Succeeded(c) => Len(resp[c].items) <= Requested(c)

(***************************************************************************)
(* C3, amended: the response list of a request that succeeds is never      *)
(* longer than any of the sequences the model returned; it stays within    *)
(* the requested count whenever one of those sequences does.               *)
(***************************************************************************)
C3_NeverLongerThanReturned ==
    \A c \in Clients :
        Succeeded(c)
        => /\ \A k \in 1..Len(ret[c].ret) : Len(resp[c].items) <= Len(ret[c].ret[k])
           /\ (\E k \in 1..Len(ret[c].ret) : Len(ret[c].ret[k]) <= Requested(c))
                  => Len(resp[c].items) <= Requested(c)

C3_Witness ==
    \E c \in Clients :
        /\ Succeeded(c)
        /\ req[c].endpoint = R_find_similar
        /\ Requested(c) = 1
        /\ Len(ret[c].ret[1]) = 2
        /\ Len(ret[c].ret[2]) = 1
        /\ Len(resp[c].items) = 1

(***************************************************************************)
(* C4: on each keyword route, a request whose keywords_neg is the empty    *)
(* list gets the same response as the same request with keywords_neg       *)
(* omitted.  (The statement as claimed.)                                   *)
(***************************************************************************)
SameButNegatives(c, d) ==
    /\ req[c].endpoint = req[d].endpoint
    /\ req[c].endpoint \in KeywordRoutes
    /\ Param(req[c], "keywords") = Param(req[d], "keywords")
    /\ Param(req[c], CountName(req[c].endpoint)) = Param(req[d], CountName(req[d].endpoint))

C4_EmptyNegativesAsOmitted ==
    \A c, d \in Clients :
        (/\ Responded(c) /\ Responded(d)
         /\ SameButNegatives(c, d)
         /\ Param(req[c], "keywords_neg") = ListV(<<>>)
         /\ "keywords_neg" \notin DOMAIN req[d].params)
        => resp[c] = resp[d]

(***************************************************************************)
(* C4, amended: keywords_neg is a required field.  A keyword request that  *)
(* omits it is rejected with 422 and reaches no model method; one that     *)
(* gives the empty list (and fits the schema otherwise) is served, with    *)
(* the empty list passed to the model as the negative keywords.            *)
(***************************************************************************)
C4_NegativesRequired ==
    \A c \in Clients :
        (Responded(c) /\ req[c].endpoint \in KeywordRoutes)
        => /\ "keywords_neg" \notin DOMAIN req[c].params
                => resp[c].status = 422 /\ calls[c] = <<>>
           /\ (/\ Param(req[c], "keywords_neg") = ListV(<<>>)
               /\ IsStrList(Param(req[c], "keywords"))
               /\ IsInt(Param(req[c], CountName(req[c].endpoint))))
                => /\ Len(calls[c]) = 1
                   /\ calls[c][1].args[3] = <<>>
                   /\ resp[c].status # 422

C4_Witness ==
    \E c, d \in Clients :
        /\ Responded(c) /\ Responded(d)
        /\ SameButNegatives(c, d)
        /\ Param(req[c], "keywords_neg") = ListV(<<>>)
        /\ "keywords_neg" \notin DOMAIN req[d].params
        /\ resp[c].status = 200
        /\ resp[d].status = 422

(***************************************************************************)
(* C5: for a request that fits the schema, the handler calls exactly one   *)
(* model method, once, with the request's values in the roles the request  *)
(* gave them.                                                              *)
(***************************************************************************)
C5_OneCallVerbatim ==
    \A c \in Clients :
        (Responded(c) /\ SchemaValid(req[c]))
        => calls[c] = <<[method |-> MethodOf(req[c].endpoint),
                         args |-> ArgumentsOf(req[c])]>>

C5_Witness ==
    \E c \in Clients :
        /\ Responded(c)
        /\ req[c].endpoint = R_topics_search
        /\ Len(calls[c]) = 1
        /\ calls[c][1].method = "search_topics"
        /\ calls[c][1].args = <<<<"a">>, 2, <<"b">>>>

(***************************************************************************)
(* C6: the model handle is the one loaded at start and no request changes  *)
(* it; under any interleaving each request gets the response it would get  *)
(* if it were the only request ever served; and no request waits on        *)
(* another: a received request can always be taken to its response.        *)
(***************************************************************************)
BodyOf(route, out) ==
    CASE route = R_number -> get_number_of_topics_body(out)
      [] route = R_get_topics -> get_topics_body(out)
      [] route = R_topics_search -> search_topics_by_keywords_body(out)
      [] route = R_by_topic -> search_documents_by_topic_body(out)
      [] route = R_by_keyword -> search_documents_by_keywords_body(out)
      [] route = R_by_document -> search_documents_by_document_body(out)
      [] route = R_find_similar -> find_similar_words_body(out)

\* The responses to request r when it is the first and only request served
\* by a freshly loaded model.
ServedAlone(r) ==
    IF ~SchemaValid(r) THEN {Unprocessable}
    ELSE {Respond(BodyOf(r.endpoint, out)) :
              out \in Call(LoadedModel, MethodOf(r.endpoint), ArgumentsOf(r))}

Answer(c) ==
    \/ RejectInvalid(c)
    \/ get_number_of_topics(c)
    \/ get_topics(c)
    \/ search_topics_by_keywords(c)
    \/ search_documents_by_topic(c)
    \/ search_documents_by_keywords(c)
    \/ search_documents_by_document(c)
    \/ find_similar_words(c)

C6_SharedReadOnlyModel ==
    /\ top2vec = LoadedModel
    /\ \A c \in Clients :
           /\ Responded(c) => resp[c] \in ServedAlone(req[c])
           /\ pc[c] = "received" => ENABLED Answer(c)

C6_Witness ==
    \E c, d \in Clients :
        /\ c # d
        /\ Responded(c)
        /\ pc[d] = "received"
        /\ req[c].endpoint = R_get_topics
        /\ req[d].endpoint = R_get_topics
        /\ resp[c].status = 200
        /\ Len(resp[c].items) = 1

(***************************************************************************)
(* C7: every request ends either in the complete success response, built   *)
(* from everything the model returned, or in an error response without     *)
(* result entries; no response holds a partly built list, and a failed     *)
(* model call is not made again.                                           *)
(***************************************************************************)
CompleteSuccess(c) ==
    /\ resp[c].status = 200
    /\ ~ret[c].raised
    /\ Len(calls[c]) = 1
    /\ \A k \in 1..Len(ret[c].ret) : Len(resp[c].items) = Len(ret[c].ret[k])

CompleteFailure(c) ==
    /\ resp[c].status # 200
    /\ resp[c].items = <<>>
    /\ Len(calls[c]) <= 1
    /\ calls[c] # <<>> => ret[c].raised

C7_AllOrNothing ==
    \A c \in Clients :
        Responded(c) => (CompleteSuccess(c) \/ CompleteFailure(c))

C7_Witness ==
    \E c, d \in Clients :
        /\ Responded(c) /\ Responded(d)
        /\ req[c].endpoint = R_by_topic /\ req[d].endpoint = R_by_topic
        /\ CompleteSuccess(c) /\ Len(resp[c].items) = 1
        /\ CompleteFailure(d) /\ Len(calls[d]) = 1 /\ resp[d].status = 404

(***************************************************************************)
(* C8: on every route a value error raised by the model becomes a 404      *)
(* response with the error's text as message; and every 404 response comes *)
(* from the model rejecting an argument, none from another step of a       *)
(* handler.                                                                *)
(***************************************************************************)
ModelRejected(c) == ret[c].raised /\ ret[c].exc.type = "ValueError"

Malformed(r) ==
    \/ /\ r.endpoint \in KeywordRoutes
       /\ {"keywords", "keywords_neg", CountName(r.endpoint)} \ DOMAIN r.params # {}
    \/ /\ r.endpoint \in {R_by_topic, R_by_document, R_get_topics}
       /\ ({IdName(r.endpoint), CountName(r.endpoint)} \ {"none"}) \ DOMAIN r.params # {}
    \/ \E n \in DOMAIN r.params : r.params[n] = StrV("abc")

C9_MalformedNeverReachesModel ==
    \A c \in Clients :
        (Responded(c) /\ Malformed(req[c]))
        => /\ calls[c] = <<>>
           /\ ret[c] = NoOutcome
           /\ resp[c].status # 404
           /\ resp[c].kind # "message"

C9_Witness ==
    \E c \in Clients :
        /\ Responded(c)
        /\ req[c].endpoint = R_by_keyword
        /\ "keywords" \notin DOMAIN req[c].params
        /\ "keywords_neg" \in DOMAIN req[c].params
        /\ IsInt(Param(req[c], "num_docs"))
        /\ resp[c].status = 422

(***************************************************************************)
(* C10: on success the response list of a list-returning route has as many *)
(* entries as the shortest of the sequences the model returned, and its    *)
(* i-th entry is built from the i-th element of each sequence, in the      *)
(* model's order; for POST /topics/search the i-th entry carries the i-th  *)
(* topic's words, word scores, topic score and topic number.               *)
(***************************************************************************)
\* The entry a route builds from the elements e of one position.
EntryOf(route, e) ==
    CASE route = R_get_topics ->
            [topic_num |-> e[3].i, topic_words |-> e[1].l, word_scores |-> e[2].f]
      [] route = R_topics_search ->
            [topic_num |-> e[4].i, topic_words |-> e[1].l, word_scores |-> e[2].f,
             topic_score |-> e[3].i]
      [] route = R_find_similar -> [word |-> e[1].s, score |-> e[2].i]
      [] OTHER -> [content |-> e[1].s, score |-> e[2].i, doc_num |-> e[3].i]

C10_EntriesFollowModelOrder ==
    \A c \in Clients :
        Succeeded(c)
        => /\ \E k \in 1..Len(ret[c].ret) : Len(resp[c].items) = Len(ret[c].ret[k])
           /\ \A k \in 1..Len(ret[c].ret) : Len(resp[c].items) <= Len(ret[c].ret[k])
           /\ \A i \in 1..Len(resp[c].items) :
                  resp[c].items[i] =
                      EntryOf(req[c].endpoint, [k \in 1..Len(ret[c].ret) |-> ret[c].ret[k][i]])

C10_Witness ==
    \E c \in Clients :
        /\ Succeeded(c)
        /\ req[c].endpoint = R_topics_search
        /\ Len(ret[c].ret[1]) = 2
        /\ Len(ret[c].ret[2]) = 2
        /\ Len(ret[c].ret[3]) = 1
        /\ Len(ret[c].ret[4]) = 2
        /\ Len(resp[c].items) = 1
        /\ resp[c].items[1].word_scores = ret[c].ret[2][1].f
        /\ resp[c].items[1].word_scores # ret[c].ret[2][2].f

====
